---- MODULE Spec2Model ----
(***************************************************************************)
(* Fornjot kernel (fj-kernel): shell validation, cycle reversal, winding.  *)
(*                                                                         *)
(* Numbers.  The kernel computes with f64 scalars; the model computes with *)
(* integers on a grid, exactly:                                            *)
(*   - every point is held at twice its value, so that the sample at 50%   *)
(*     of a boundary interval is again a grid point;                       *)
(*   - a path coordinate on a circle counts quarter turns, so that cosine  *)
(*     and sine are -1, 0 or 1; arcs that are sampled at 50% span an even  *)
(*     number of quarter turns;                                            *)
(*   - a distance d is held as the square of 2d, and the two thresholds of *)
(*     ValidationConfig are given in half grid units, so `d > t` is        *)
(*     `(2d)^2 > t^2` and `d < t` is `(2d)^2 < t^2`.                       *)
(***************************************************************************)
EXTENDS Integers, Sequences, FiniteSets, TLC

VARIABLES
    objects,    \* Service<Objects>: how many objects of each kind were inserted
    valid,      \* Some(the shell that was built), NoShell before it is built
    invalid,    \* Some(the shell derived from `valid` by one update), or NoShell
    config,     \* the ValidationConfig handed to validate_with_config
    errors,     \* the caller's Vec<ValidationError>
    calls,      \* number of validate_with_config calls made so far
    last,       \* the last validate_with_config call: its target and the
                \* length of `errors` when it was entered
    cycles,     \* the cycle that was built, followed by the cycles obtained
                \* from it by reversing the last one again and again
    windings,   \* windings[k]: what Cycle::winding returned for cycles[k],
                \* NotAsked until it is called
    rotated,    \* what Cycle::winding returned for a cycle made of the
                \* half-edges of cycles[1], started `by` places later
    faces,      \* the two faces handed to FaceFaceIntersection::compute,
                \* empty until they are built
    intersections,  \* what the calls of FaceFaceIntersection::compute on
                \* `faces` returned, in order
    partial,    \* the PartialHalfEdge the program holds, if any
    log,        \* the calls that made or converted half-edges, in order:
                \* what each was given, what it returned, and the store
                \* before and after it
    shells,     \* the shell of colored faces that was built, followed by
                \* the shells made of it by reversing a face or a cycle
    steps,      \* steps[k]: the reversal that made shells[k + 1] of
                \* shells[k], and the store before and after it
    reports     \* reports[k]: the errors validation reported for
                \* shells[k], once it was validated

shell_vars == <<valid, invalid, config, errors, calls, last>>
cycle_vars == <<cycles, windings, rotated>>
intersect_vars == <<faces, intersections>>
partial_vars == <<partial, log>>
face_vars == <<shells, steps, reports>>
vars == <<objects, shell_vars, cycle_vars, intersect_vars, partial_vars,
         face_vars>>

None == 0
\* An Option<Shell>: NoShell, or Some(shell); a shell is its sequence of faces.
NoShell == <<>>
Some(x) == <<x>>
unwrap(option) == option[1]

----------------------------------------------------------------------------
(* fj_math: points and vectors, all at twice their value.                  *)

\* Points and vectors of 2 (surface) or 3 (global) coordinates.
Add(p, q) ==
    IF Len(p) = 2 THEN <<p[1] + q[1], p[2] + q[2]>>
    ELSE <<p[1] + q[1], p[2] + q[2], p[3] + q[3]>>
Sub(p, q) ==
    IF Len(p) = 2 THEN <<p[1] - q[1], p[2] - q[2]>>
    ELSE <<p[1] - q[1], p[2] - q[2], p[3] - q[3]>>
Mul(p, k) ==
    IF Len(p) = 2 THEN <<p[1] * k, p[2] * k>>
    ELSE <<p[1] * k, p[2] * k, p[3] * k>>
SumSq(v) ==
    IF Len(v) = 2 THEN v[1] * v[1] + v[2] * v[2]
    ELSE v[1] * v[1] + v[2] * v[2] + v[3] * v[3]

\* Point::distance_to, as the squared distance of two doubled points.
distance_to(p, q) == SumSq(Sub(p, q))

cos4(t) == CASE t % 4 = 0 -> 1 [] t % 4 = 2 -> -1 [] OTHER -> 0
sin4(t) == CASE t % 4 = 1 -> 1 [] t % 4 = 3 -> -1 [] OTHER -> 0

Line(origin, direction) ==
    [kind |-> "Line", origin |-> origin, direction |-> direction]
Circle(center, a, b) ==
    [kind |-> "Circle", center |-> center, a |-> a, b |-> b]

\* Curve::point_from_path_coords at the path coordinate t2/2; the result is
\* twice the point.
point_from_path_coords(curve, t2) ==
    IF curve.kind = "Line"
    THEN Add(Mul(curve.origin, 2), Mul(curve.direction, t2))
    ELSE Mul(Add(curve.center,
                 Add(Mul(curve.a, cos4(t2 \div 2)), Mul(curve.b, sin4(t2 \div 2)))),
             2)

\* SurfaceGeometry::point_from_surface_coords at the surface coordinates
\* uv2/2; the result is twice the point.
point_from_surface_coords(surface, uv2) ==
    Add(Add(Mul(surface.u.origin, 2), Mul(surface.u.direction, uv2[1])),
        Mul(surface.v, uv2[2]))

\* BuildSurface::plane_from_points
plane_from_points(points) ==
    LET a == points[1]
        b == points[2]
        c == points[3]
    IN  [u |-> [origin |-> a, direction |-> Sub(b, a)], v |-> Sub(c, a)]

----------------------------------------------------------------------------
(* Objects and their construction.                                         *)

NoObjects == [vertices |-> 0, global_edges |-> 0, half_edges |-> 0]

\* HalfEdge::new; `id` is the ObjectId of its handle, None until inserted.
HalfEdge_new(curve, boundary, start_vertex, global_form) ==
    [id |-> None, curve |-> curve, boundary |-> boundary,
     start_vertex |-> start_vertex, global_form |-> global_form]

\* Insert for HalfEdge: the store issues the next identity.
insert_half_edge(half_edge, objs) ==
    [handle |-> [half_edge EXCEPT !.id = objs.half_edges + 1],
     objects |-> [objs EXCEPT !.half_edges = @ + 1]]

Cycle_new(half_edges) == half_edges
Face_new(surface, exterior, interiors) ==
    [surface |-> surface, exterior |-> exterior, interiors |-> interiors]
all_cycles(face) == <<face.exterior>> \o face.interiors

\* HalfEdgeBuilder::new
HalfEdgeBuilder_new(curve, boundary) ==
    [curve |-> curve, boundary |-> boundary,
     start_vertex |-> None, global_form |-> None]

\* HalfEdgeBuilder::line_segment with the default boundary [0, 1]
line_segment(points_surface) ==
    HalfEdgeBuilder_new(
        Line(points_surface[1], Sub(points_surface[2], points_surface[1])),
        <<0, 1>>)

with_global_form(builder, global_form) ==
    [builder EXCEPT !.global_form = global_form]

\* HalfEdgeBuilder::build, had it inserted a vertex and a global edge
\* whether or not it was given one
HalfEdgeBuilder_build_inserting(builder, objs) ==
    LET v == IF builder.start_vertex = None
             THEN objs.vertices + 1
             ELSE builder.start_vertex
        g == IF builder.global_form = None
             THEN objs.global_edges + 1
             ELSE builder.global_form
    IN  [half_edge |-> HalfEdge_new(builder.curve, builder.boundary, v, g),
         objects |-> [objs EXCEPT !.vertices = @ + 1, !.global_edges = @ + 1]]

\* HalfEdgeBuilder::build: a start vertex or global form that was not given
\* is inserted into the store.
HalfEdgeBuilder_build(builder, objs) ==
    LET fresh_v == builder.start_vertex = None
        fresh_g == builder.global_form = None
        v == IF fresh_v THEN objs.vertices + 1 ELSE builder.start_vertex
        g == IF fresh_g THEN objs.global_edges + 1 ELSE builder.global_form
    IN  [half_edge |-> HalfEdge_new(builder.curve, builder.boundary, v, g),
         objects |-> [objs EXCEPT
                        !.vertices = IF fresh_v THEN @ + 1 ELSE @,
                        !.global_edges = IF fresh_g THEN @ + 1 ELSE @]]

\* Builds and inserts the half-edges of a sequence of builders, in order.
RECURSIVE build_half_edges(_, _)
build_half_edges(builders, objs) ==
    IF builders = <<>>
    THEN [half_edges |-> <<>>, objects |-> objs]
    ELSE LET built == HalfEdgeBuilder_build(Head(builders), objs)
             ins == insert_half_edge(built.half_edge, built.objects)
             rest == build_half_edges(Tail(builders), ins.objects)
         IN  [half_edges |-> <<ins.handle>> \o rest.half_edges,
              objects |-> rest.objects]

\* BuildFace::triangle: a face on the plane through three points whose
\* exterior is the triangle of those points; global_forms[i] is the global
\* form given for edge i, or None.
triangle(points, global_forms, objs) ==
    LET corners == <<<<0, 0>>, <<1, 0>>, <<0, 1>>>>
        builders == [i \in 1..3 |->
                        with_global_form(
                            line_segment(<<corners[i], corners[(i % 3) + 1]>>),
                            global_forms[i])]
        built == build_half_edges(builders, objs)
    IN  [face |-> Face_new(plane_from_points(points),
                           Cycle_new(built.half_edges), <<>>),
         objects |-> built.objects]

\* BuildShell::tetrahedron: faces abc, bad, dac, cbd; every edge of a later
\* face that runs along an edge of an earlier face takes its global form.
tetrahedron(points, objs) ==
    LET a == points[1]
        b == points[2]
        c == points[3]
        d == points[4]
        abc == triangle(<<a, b, c>>, <<None, None, None>>, objs)
        bad == triangle(<<b, a, d>>,
                        <<abc.face.exterior[1].global_form, None, None>>,
                        abc.objects)
        dac == triangle(<<d, a, c>>,
                        <<bad.face.exterior[2].global_form,
                          abc.face.exterior[3].global_form, None>>,
                        bad.objects)
        cbd == triangle(<<c, b, d>>,
                        <<abc.face.exterior[2].global_form,
                          bad.face.exterior[3].global_form,
                          dac.face.exterior[3].global_form>>,
                        dac.objects)
    IN  [shell |-> <<abc.face, bad.face, dac.face, cbd.face>>,
         objects |-> cbd.objects]

\* UpdateShell::remove_face
remove_face(shell, f) ==
    [k \in 1..(Len(shell) - 1) |-> IF k < f THEN shell[k] ELSE shell[k + 1]]

\* The update of tests::coincident_not_identical: half-edge i of the exterior
\* of face f gets the global form g and is inserted as a new half-edge.
update_global_form(shell, f, i, g, objs) ==
    LET old == shell[f].exterior[i]
        ins == insert_half_edge(
                   HalfEdge_new(old.curve, old.boundary, old.start_vertex, g),
                   objs)
    IN  [shell |-> [shell EXCEPT ![f].exterior[i] = ins.handle],
         objects |-> ins.objects]

----------------------------------------------------------------------------
(* validate/shell.rs                                                       *)

sample_count == 3

\* A percentage is held as its numerator over sample_count - 1.
sample(percent, edge, surface) ==
    LET boundary == edge.boundary
        path_coords == boundary[1] * (sample_count - 1)
                       + (boundary[2] - boundary[1]) * percent
        surface_coords == point_from_path_coords(edge.curve, path_coords)
    IN  point_from_surface_coords(surface, surface_coords)

\* d > threshold and d < threshold, for a squared doubled distance
exceeds(d, threshold) == d > threshold * threshold
below(d, threshold) == d < threshold * threshold

\* distances, had it never sampled the second edge in reverse
distances_never_flipped(cfg, es1, es2) ==
    [i \in 1..sample_count |->
        distance_to(sample(i - 1, es1.edge, es1.surface),
                    sample(i - 1, es2.edge, es2.surface))]

distances(cfg, es1, es2) ==
    LET flip == exceeds(distance_to(sample(0, es1.edge, es1.surface),
                                    sample(0, es2.edge, es2.surface)),
                        cfg.identical_max_distance)
    IN  [i \in 1..sample_count |->
            LET percent == i - 1
                sample1 == sample(percent, es1.edge, es1.surface)
                sample2 == sample(IF flip THEN (sample_count - 1) - percent
                                  ELSE percent,
                                  es2.edge, es2.surface)
            IN  distance_to(sample1, sample2)]

RECURSIVE FlattenTo(_, _)
FlattenTo(seqs, n) ==
    IF n = 0 THEN <<>> ELSE FlattenTo(seqs, n - 1) \o seqs[n]
Flatten(seqs) == FlattenTo(seqs, Len(seqs))

\* the half-edges of a face, each with the face's surface
face_edges_and_surfaces(face) ==
    LET hs == Flatten(all_cycles(face))
    IN  [k \in 1..Len(hs) |-> [edge |-> hs[k], surface |-> face.surface]]

edges_and_surfaces(shell) ==
    Flatten([f \in 1..Len(shell) |-> face_edges_and_surfaces(shell[f])])

NotWatertight == [kind |-> "NotWatertight"]
CoincidentEdgesNotIdentical(edge_1, edge_2) ==
    [kind |-> "CoincidentEdgesNotIdentical", edge_1 |-> edge_1, edge_2 |-> edge_2]
IdenticalEdgesNotCoincident(edge_1, surface_1, edge_2, surface_2) ==
    [kind |-> "IdenticalEdgesNotCoincident",
     edge_1 |-> edge_1, surface_1 |-> surface_1,
     edge_2 |-> edge_2, surface_2 |-> surface_2]

\* check_pair with `d <= distinct_min_distance` for `d < distinct_min_distance`
check_pair_at_most(cfg, edge, other_edge) ==
    LET identical == edge.edge.global_form = other_edge.edge.global_form
        ds == distances(cfg, edge, other_edge)
    IN  IF identical
        THEN IF \E k \in 1..Len(ds) : exceeds(ds[k], cfg.identical_max_distance)
             THEN <<IdenticalEdgesNotCoincident(edge.edge.id, edge.surface,
                                                other_edge.edge.id,
                                                other_edge.surface)>>
             ELSE <<>>
        ELSE IF \A k \in 1..Len(ds) : ~exceeds(ds[k], cfg.distinct_min_distance)
             THEN <<CoincidentEdgesNotIdentical(edge.edge.id, other_edge.edge.id)>>
             ELSE <<>>

\* check_pair with `d >= identical_max_distance` for `d > identical_max_distance`
check_pair_at_least(cfg, edge, other_edge) ==
    LET identical == edge.edge.global_form = other_edge.edge.global_form
        ds == distances(cfg, edge, other_edge)
    IN  IF identical
        THEN IF \E k \in 1..Len(ds) : ~below(ds[k], cfg.identical_max_distance)
             THEN <<IdenticalEdgesNotCoincident(edge.edge.id, edge.surface,
                                                other_edge.edge.id,
                                                other_edge.surface)>>
             ELSE <<>>
        ELSE IF \A k \in 1..Len(ds) : below(ds[k], cfg.distinct_min_distance)
             THEN <<CoincidentEdgesNotIdentical(edge.edge.id, other_edge.edge.id)>>
             ELSE <<>>

\* check_pair with distinct edges held against identical_max_distance
check_pair_one_threshold(cfg, edge, other_edge) ==
    LET identical == edge.edge.global_form = other_edge.edge.global_form
        ds == distances(cfg, edge, other_edge)
    IN  IF identical
        THEN IF \E k \in 1..Len(ds) : exceeds(ds[k], cfg.identical_max_distance)
             THEN <<IdenticalEdgesNotCoincident(edge.edge.id, edge.surface,
                                                other_edge.edge.id,
                                                other_edge.surface)>>
             ELSE <<>>
        ELSE IF \A k \in 1..Len(ds) : below(ds[k], cfg.identical_max_distance)
             THEN <<CoincidentEdgesNotIdentical(edge.edge.id, other_edge.edge.id)>>
             ELSE <<>>

\* The body of the two nested loops for one (edge, other_edge): the errors
\* it pushes.
check_pair(cfg, edge, other_edge) ==
    LET identical == edge.edge.global_form = other_edge.edge.global_form
        ds == distances(cfg, edge, other_edge)
    IN  IF identical
        THEN IF \E k \in 1..Len(ds) : exceeds(ds[k], cfg.identical_max_distance)
             THEN <<IdenticalEdgesNotCoincident(edge.edge.id, edge.surface,
                                                other_edge.edge.id,
                                                other_edge.surface)>>
             ELSE <<>>
        ELSE IF \A k \in 1..Len(ds) : below(ds[k], cfg.distinct_min_distance)
             THEN <<CoincidentEdgesNotIdentical(edge.edge.id, other_edge.edge.id)>>
             ELSE <<>>

\* validate_edges_coincident, had its inner loop started at the outer edge
validate_edges_coincident_unordered(shell, cfg, errs) ==
    LET es == edges_and_surfaces(shell)
        n == Len(es)
    IN  errs \o Flatten([i \in 1..n |->
                            Flatten([j \in 1..n |->
                                IF j < i THEN <<>>
                                ELSE check_pair(cfg, es[i], es[j])])])

validate_edges_coincident(shell, cfg, errs) ==
    LET es == edges_and_surfaces(shell)
        n == Len(es)
    IN  errs \o Flatten([i \in 1..n |->
                            Flatten([j \in 1..n |-> check_pair(cfg, es[i], es[j])])])

\* the HashMap half_edge_to_faces: for every global edge some half-edge of
\* the shell refers to, the number of half-edges that refer to it
RECURSIVE count_half_edges(_, _)
count_half_edges(half_edges, map) ==
    IF half_edges = <<>> THEN map
    ELSE LET id == Head(half_edges).edge.global_form
             entry == IF id \in DOMAIN map THEN map[id] ELSE 0
         IN  count_half_edges(
                 Tail(half_edges),
                 [k \in DOMAIN map \cup {id} |->
                     IF k = id THEN entry + 1 ELSE map[k]])

\* validate_watertight with `*c > 2` for `*c != 2`
validate_watertight_over_two(shell, cfg, errs) ==
    LET half_edge_to_faces == count_half_edges(edges_and_surfaces(shell), <<>>)
    IN  IF \E id \in DOMAIN half_edge_to_faces : half_edge_to_faces[id] > 2
        THEN Append(errs, NotWatertight)
        ELSE errs

\* validate_watertight, had it pushed one error per offending global edge
validate_watertight_each(shell, cfg, errs) ==
    LET half_edge_to_faces == count_half_edges(edges_and_surfaces(shell), <<>>)
        offending == {id \in DOMAIN half_edge_to_faces : half_edge_to_faces[id] # 2}
    IN  errs \o [k \in 1..Cardinality(offending) |-> NotWatertight]

validate_watertight(shell, cfg, errs) ==
    LET half_edge_to_faces == count_half_edges(edges_and_surfaces(shell), <<>>)
    IN  IF \E id \in DOMAIN half_edge_to_faces : half_edge_to_faces[id] # 2
        THEN Append(errs, NotWatertight)
        ELSE errs

\* validate_with_config, had it started from an empty list
validate_with_config_cleared(shell, cfg, errs) ==
    validate_watertight(shell, cfg, validate_edges_coincident(shell, cfg, <<>>))

validate_with_config(shell, cfg, errs) ==
    validate_watertight(shell, cfg, validate_edges_coincident(shell, cfg, errs))

----------------------------------------------------------------------------
(* Inputs.                                                                 *)

MaxValidations == 2

\* ValidationConfig, thresholds in half grid units.  The first stands for
\* the default configuration, whose tolerances are far below the size of
\* the shapes; the second puts sample distances exactly on a threshold.
DefaultConfig == [identical_max_distance |-> 0, distinct_min_distance |-> 1]
ConfigInputs ==
    {DefaultConfig,
     [identical_max_distance |-> 2, distinct_min_distance |-> 2]}

TetrahedronPoints == <<<<0, 0, 0>>, <<1, 0, 0>>, <<0, 1, 0>>, <<0, 0, 1>>>>

xy_plane == plane_from_points(<<<<0, 0, 0>>, <<1, 0, 0>>, <<0, 1, 0>>>>)
xz_plane == plane_from_points(<<<<0, 0, 0>>, <<1, 0, 0>>, <<0, 0, 1>>>>)

\* Half-edge builders for shells of two half-edges: a segment, its reverse,
\* the same segment on a differently scaled line, a segment that leaves the
\* same start, a parallel segment at distance 1, a segment that meets only
\* the end, a half circle between the end points of the first segment, and
\* the same half circle run through backwards.
EdgeInputs ==
    {line_segment(<<<<0, 0>>, <<2, 0>>>>),
     line_segment(<<<<2, 0>>, <<0, 0>>>>),
     HalfEdgeBuilder_new(Line(<<0, 0>>, <<1, 0>>), <<0, 2>>),
     line_segment(<<<<0, 0>>, <<2, 2>>>>),
     line_segment(<<<<0, 1>>, <<2, 1>>>>),
     line_segment(<<<<2, 2>>, <<2, 0>>>>),
     HalfEdgeBuilder_new(Circle(<<1, 0>>, <<1, 0>>, <<0, 1>>), <<2, 4>>),
     HalfEdgeBuilder_new(Circle(<<1, 0>>, <<1, 0>>, <<0, 1>>), <<4, 2>>)}

\* The first half-edge of such a shell: the segment or the half circle.
FirstEdgeInputs ==
    {line_segment(<<<<0, 0>>, <<2, 0>>>>),
     HalfEdgeBuilder_new(Circle(<<1, 0>>, <<1, 0>>, <<0, 1>>), <<2, 4>>)}

PlaceInputs == {"face_xy", "face_xz", "interior"}

\* A shell of two half-edges: the first is the exterior of a face on the
\* xy-plane; the second is the exterior of a second face, on the xy- or the
\* xz-plane, or an interior cycle of the first face.  The second half-edge
\* takes the global form of the first when `share`.
pair_shell(b1, b2, place, share, objs) ==
    LET first == build_half_edges(<<b1>>, objs)
        g == first.half_edges[1].global_form
        second == build_half_edges(
                      <<IF share THEN with_global_form(b2, g) ELSE b2>>,
                      first.objects)
        c1 == Cycle_new(first.half_edges)
        c2 == Cycle_new(second.half_edges)
    IN  [shell |->
            IF place = "interior"
            THEN <<Face_new(xy_plane, c1, <<c2>>)>>
            ELSE <<Face_new(xy_plane, c1, <<>>),
                   Face_new(IF place = "face_xy" THEN xy_plane ELSE xz_plane,
                            c2, <<>>)>>,
         objects |-> second.objects]

----------------------------------------------------------------------------
(* The state machine of a program that builds a shell, derives a second    *)
(* shell from it by one update, and validates either of them.              *)

NoCall == [target |-> "none", mark |-> 0]

Init ==
    /\ objects = NoObjects
    /\ valid = NoShell
    /\ invalid = NoShell
    /\ config \in ConfigInputs
    /\ errors = <<>>
    /\ calls = 0
    /\ last = NoCall
    /\ cycles = <<>>
    /\ windings = <<>>
    /\ rotated = [by |-> 0, winding |-> "not asked"]
    /\ faces = <<>>
    /\ intersections = <<>>
    /\ partial = <<>>
    /\ log = <<>>
    /\ shells = <<>>
    /\ steps = <<>>
    /\ reports = <<>>

BuildTetrahedron ==
    /\ valid = NoShell
    /\ LET built == tetrahedron(TetrahedronPoints, objects)
       IN  /\ valid' = Some(built.shell)
           /\ objects' = built.objects
    /\ UNCHANGED <<invalid, config, errors, calls, last, cycle_vars, intersect_vars, partial_vars, face_vars>>

BuildPair ==
    /\ valid = NoShell
    /\ \E b1 \in FirstEdgeInputs, b2 \in EdgeInputs, place \in PlaceInputs,
          share \in BOOLEAN :
          LET built == pair_shell(b1, b2, place, share, objects)
          IN  /\ valid' = Some(built.shell)
              /\ objects' = built.objects
    /\ UNCHANGED <<invalid, config, errors, calls, last, cycle_vars, intersect_vars, partial_vars, face_vars>>

RemoveFace ==
    /\ valid # NoShell
    /\ invalid = NoShell
    /\ calls = 0
    /\ \E f \in 1..Len(unwrap(valid)) :
          invalid' = Some(remove_face(unwrap(valid), f))
    /\ UNCHANGED <<objects, valid, config, errors, calls, last, cycle_vars, intersect_vars, partial_vars, face_vars>>

\* The new global form is freshly inserted (g = None) or that of the next
\* half-edge of the same exterior.
UpdateGlobalForm ==
    /\ valid # NoShell
    /\ invalid = NoShell
    /\ calls = 0
    /\ \E f \in 1..Len(unwrap(valid)) :
       \E i \in 1..Len(unwrap(valid)[f].exterior) :
       \E g \in {None} \cup
                ({unwrap(valid)[f].exterior[
                      (i % Len(unwrap(valid)[f].exterior)) + 1].global_form}
                 \ {unwrap(valid)[f].exterior[i].global_form}) :
          LET fresh == g = None
              objs == IF fresh
                      THEN [objects EXCEPT !.global_edges = @ + 1]
                      ELSE objects
              updated == update_global_form(
                             unwrap(valid), f, i,
                             IF fresh THEN objs.global_edges ELSE g, objs)
          IN  /\ invalid' = Some(updated.shell)
              /\ objects' = updated.objects
    /\ UNCHANGED <<valid, config, errors, calls, last, cycle_vars, intersect_vars, partial_vars, face_vars>>

Validate ==
    /\ calls < MaxValidations
    /\ \E target \in {"valid", "invalid"} :
          LET shell == IF target = "valid" THEN valid ELSE invalid
          IN  /\ shell # NoShell
              /\ errors' = validate_with_config(unwrap(shell), config, errors)
              /\ last' = [target |-> target, mark |-> Len(errors)]
    /\ calls' = calls + 1
    /\ UNCHANGED <<objects, valid, invalid, config, cycle_vars, intersect_vars, partial_vars, face_vars>>

Next ==
    \/ BuildTetrahedron
    \/ BuildPair
    \/ RemoveFace
    \/ UpdateGlobalForm
    \/ Validate

Spec == Init /\ [][Next]_vars

----------------------------------------------------------------------------
(* objects/full/cycle.rs and algorithms/reverse/cycle.rs                   *)

Cw == "Cw"
Ccw == "Ccw"
\* winding ended in expect() or unreachable!()
InvalidCycle == "invalid cycle"

\* Vector::cross2d
cross2d(a, b) == a[1] * b[2] - a[2] * b[1]

\* HalfEdge::start_position, and the position at the other end of the
\* boundary; both at twice their value.
start_position(half_edge) ==
    point_from_path_coords(half_edge.curve, 2 * half_edge.boundary[1])
end_position(half_edge) ==
    point_from_path_coords(half_edge.curve, 2 * half_edge.boundary[2])

\* The same two positions at their value, for curves that are lines.
start_position_at_value(half_edge) ==
    Add(half_edge.curve.origin,
        Mul(half_edge.curve.direction, half_edge.boundary[1]))
end_position_at_value(half_edge) ==
    Add(half_edge.curve.origin,
        Mul(half_edge.curve.direction, half_edge.boundary[2]))

\* The sum of winding over the circular windows i..Len(cycle); with every
\* position at twice its value it is four times the sum of the code.
RECURSIVE winding_sum(_, _)
winding_sum(cycle, i) ==
    IF i > Len(cycle) THEN 0
    ELSE LET a == start_position(cycle[i])
             b == start_position(cycle[(i % Len(cycle)) + 1])
         IN  (b[1] - a[1]) * (b[2] + a[2]) + winding_sum(cycle, i + 1)

\* Cycle::winding, had it judged a circle by the direction of the boundary
\* alone
winding_by_boundary(cycle) ==
    IF Len(cycle) < 3
    THEN IF Len(cycle) = 0 THEN InvalidCycle
         ELSE LET first == cycle[1]
                  edge_direction_positive == first.boundary[1] < first.boundary[2]
              IN  IF first.curve.kind # "Circle" THEN InvalidCycle
                  ELSE IF edge_direction_positive THEN Ccw ELSE Cw
    ELSE LET sum == winding_sum(cycle, 1)
         IN  IF sum > 0 THEN Cw
             ELSE IF sum < 0 THEN Ccw
             ELSE InvalidCycle

\* Cycle::winding, had it taken a sum of zero for counter-clockwise
winding_zero_ccw(cycle) ==
    IF Len(cycle) < 3
    THEN IF Len(cycle) = 0 THEN InvalidCycle
         ELSE LET first == cycle[1]
                  edge_direction_positive == first.boundary[1] < first.boundary[2]
              IN  IF first.curve.kind # "Circle" THEN InvalidCycle
                  ELSE LET cross_positive ==
                               cross2d(first.curve.a, first.curve.b) > 0
                       IN  IF edge_direction_positive = cross_positive
                           THEN Ccw
                           ELSE Cw
    ELSE LET sum == winding_sum(cycle, 1)
         IN  IF sum > 0 THEN Cw ELSE Ccw

\* Cycle::winding
winding(cycle) ==
    IF Len(cycle) < 3
    THEN IF Len(cycle) = 0 THEN InvalidCycle
         ELSE LET first == cycle[1]
                  edge_direction_positive == first.boundary[1] < first.boundary[2]
              IN  IF first.curve.kind # "Circle" THEN InvalidCycle
                  ELSE LET cross_positive ==
                               cross2d(first.curve.a, first.curve.b) > 0
                       IN  IF edge_direction_positive = cross_positive
                           THEN Ccw
                           ELSE Cw
    ELSE LET sum == winding_sum(cycle, 1)
         IN  IF sum > 0 THEN Cw
             ELSE IF sum < 0 THEN Ccw
             ELSE InvalidCycle

\* The closure of reverse, had it kept the start vertex of each half-edge
RECURSIVE reverse_edges_own_vertex(_, _, _)
reverse_edges_own_vertex(cycle, i, objs) ==
    IF i > Len(cycle)
    THEN [half_edges |-> <<>>, objects |-> objs]
    ELSE LET current == cycle[i]
             boundary == <<current.boundary[2], current.boundary[1]>>
             ins == insert_half_edge(
                        HalfEdge_new(current.curve, boundary,
                                     current.start_vertex, current.global_form),
                        objs)
             rest == reverse_edges_own_vertex(cycle, i + 1, ins.objects)
         IN  [half_edges |-> <<ins.handle>> \o rest.half_edges,
              objects |-> rest.objects]

\* The closure of reverse mapped over the circular windows i..Len(cycle):
\* every new half-edge is inserted as it is made.
RECURSIVE reverse_edges(_, _, _)
reverse_edges(cycle, i, objs) ==
    IF i > Len(cycle)
    THEN [half_edges |-> <<>>, objects |-> objs]
    ELSE LET current == cycle[i]
             next == cycle[(i % Len(cycle)) + 1]
             boundary == <<current.boundary[2], current.boundary[1]>>
             ins == insert_half_edge(
                        HalfEdge_new(current.curve, boundary,
                                     next.start_vertex, current.global_form),
                        objs)
             rest == reverse_edges(cycle, i + 1, ins.objects)
         IN  [half_edges |-> <<ins.handle>> \o rest.half_edges,
              objects |-> rest.objects]

\* reverse, had it made a new global form for every half-edge
reverse_new_global_forms(cycle, objs) ==
    LET mapped == reverse_edges(cycle, 1, objs)
        n == Len(mapped.half_edges)
        edges == [j \in 1..n |->
                     [mapped.half_edges[n + 1 - j] EXCEPT
                         !.global_form = mapped.objects.global_edges + j]]
    IN  [cycle |-> Cycle_new(edges),
         objects |-> [mapped.objects EXCEPT !.global_edges = @ + n]]

\* reverse, had it left out `edges.reverse()`
reverse_in_place(cycle, objs) ==
    LET mapped == reverse_edges(cycle, 1, objs)
    IN  [cycle |-> Cycle_new(mapped.half_edges), objects |-> mapped.objects]

\* Reverse for Handle<Cycle>
reverse(cycle, objs) ==
    LET mapped == reverse_edges(cycle, 1, objs)
        n == Len(mapped.half_edges)
        edges == [j \in 1..n |-> mapped.half_edges[n + 1 - j]]
    IN  [cycle |-> Cycle_new(edges), objects |-> mapped.objects]

----------------------------------------------------------------------------
(* Inputs: cycles.                                                         *)

MaxReversals == 3
MaxSides == 4

\* Corners of polygons, as surface coordinates.
CornerInputs == {<<0, 0>>, <<2, 0>>, <<2, 1>>, <<0, 1>>, <<1, 0>>, <<1, 2>>}

\* The builders of the closed polygon through `points`: one line segment
\* from each point to the next, and from the last to the first.
polygon(points) ==
    [i \in 1..Len(points) |->
        line_segment(<<points[i], points[(i % Len(points)) + 1]>>)]

\* Polygons of 3 to MaxSides different corners, in every order; some run
\* clockwise, some counter-clockwise, some are degenerate (corners on one
\* line) or cross themselves.
PolygonInputs ==
    {polygon(points) :
        points \in {p \in UNION {[1..n -> CornerInputs] : n \in 3..MaxSides} :
                       \A i, j \in DOMAIN p : i # j => p[i] # p[j]}}

unit_circle == Circle(<<0, 0>>, <<1, 0>>, <<0, 1>>)
mirrored_circle == Circle(<<0, 0>>, <<1, 0>>, <<0, -1>>)
arc(curve, from, to) == HalfEdgeBuilder_new(curve, <<from, to>>)

\* Cycles made of arcs (boundaries in quarter turns): no half-edge; a full
\* circle in either direction, on either circle; two half circles; a circle
\* in three and in four arcs; a lens between (0, -1) and (0, 1), made of a
\* quarter of the circle around (-1, 0) and a quarter of the circle around
\* (1, 0); a crescent between the same two points, made of the right half
\* of the unit circle and, back, a quarter of the circle around (-1, 0),
\* starting at either half-edge; and a half disc, made of a half circle and
\* its chord, starting at either half-edge.
ArcInputs ==
    {<<>>,
     <<arc(unit_circle, 0, 4)>>,
     <<arc(unit_circle, 4, 0)>>,
     <<arc(mirrored_circle, 0, 4)>>,
     <<arc(mirrored_circle, 4, 0)>>,
     <<arc(unit_circle, 0, 2), arc(unit_circle, 2, 4)>>,
     <<arc(unit_circle, 4, 2), arc(unit_circle, 2, 0)>>,
     <<arc(unit_circle, 0, 2), arc(mirrored_circle, -2, -4)>>,
     <<arc(unit_circle, 0, 1), arc(unit_circle, 1, 2), arc(unit_circle, 2, 4)>>,
     <<arc(unit_circle, 4, 3), arc(unit_circle, 3, 2), arc(unit_circle, 2, 1),
       arc(unit_circle, 1, 0)>>,
     <<arc(Circle(<<-1, 0>>, <<1, -1>>, <<1, 1>>), 0, 1),
       arc(Circle(<<1, 0>>, <<-1, 1>>, <<-1, -1>>), 0, 1)>>,
     <<arc(Circle(<<1, 0>>, <<-1, 1>>, <<-1, -1>>), 1, 0),
       arc(Circle(<<-1, 0>>, <<1, -1>>, <<1, 1>>), 1, 0)>>,
     <<arc(unit_circle, -1, 1),
       arc(Circle(<<-1, 0>>, <<1, 1>>, <<-1, 1>>), 0, -1)>>,
     <<arc(Circle(<<-1, 0>>, <<1, 1>>, <<-1, 1>>), 0, -1),
       arc(unit_circle, -1, 1)>>,
     <<arc(unit_circle, 0, 2), line_segment(<<<<-1, 0>>, <<1, 0>>>>)>>,
     <<line_segment(<<<<-1, 0>>, <<1, 0>>>>), arc(unit_circle, 0, 2)>>}

CycleInputs == PolygonInputs \cup ArcInputs

----------------------------------------------------------------------------
(* The state machine of a program that builds a cycle, reverses it again   *)
(* and again, and asks for the winding of any of the cycles it holds.      *)

NotAsked == "not asked"
NoRotation == [by |-> 0, winding |-> NotAsked]

\* The half-edges of a cycle in the same circular order, starting `by`
\* places later.
rotate(cycle, by) ==
    [i \in 1..Len(cycle) |-> cycle[((i - 1 + by) % Len(cycle)) + 1]]

InitCycle ==
    /\ Init
    /\ config = DefaultConfig

BuildCycle ==
    /\ cycles = <<>>
    /\ \E builders \in CycleInputs :
          LET built == build_half_edges(builders, objects)
          IN  /\ cycles' = <<Cycle_new(built.half_edges)>>
              /\ objects' = built.objects
    /\ windings' = <<NotAsked>>
    /\ UNCHANGED <<shell_vars, intersect_vars, partial_vars, face_vars, rotated>>

ReverseCycle ==
    /\ cycles # <<>>
    /\ Len(cycles) <= MaxReversals
    /\ LET reversed == reverse(cycles[Len(cycles)], objects)
       IN  /\ cycles' = Append(cycles, reversed.cycle)
           /\ objects' = reversed.objects
    /\ windings' = Append(windings, NotAsked)
    /\ UNCHANGED <<shell_vars, intersect_vars, partial_vars, face_vars, rotated>>

AskWinding ==
    /\ \E k \in 1..Len(cycles) :
          /\ windings[k] = NotAsked
          /\ windings' = [windings EXCEPT ![k] = winding(cycles[k])]
    /\ UNCHANGED <<objects, shell_vars, intersect_vars, partial_vars, face_vars, cycles, rotated>>

\* A second cycle is made of the half-edges of the cycle that was built,
\* in the same circular order but starting `by` places later, and is asked
\* for its winding.
AskRotatedWinding ==
    /\ cycles # <<>>
    /\ rotated = NoRotation
    /\ \E by \in 0..(Len(cycles[1]) - 1) :
          rotated' = [by |-> by,
                      winding |-> winding(Cycle_new(rotate(cycles[1], by)))]
    /\ UNCHANGED <<objects, shell_vars, intersect_vars, partial_vars, face_vars, cycles, windings>>

NextCycle ==
    \/ BuildCycle
    \/ ReverseCycle
    \/ AskWinding
    \/ AskRotatedWinding

SpecCycle == InitCycle /\ [][NextCycle]_vars

----------------------------------------------------------------------------
(* algorithms/intersect/face_face.rs.  In this part points are held at     *)
(* their value; all faces are rectangles on planes whose u axis is the     *)
(* global x axis, so that every intersection curve is a line along u.      *)

Cross3(a, b) ==
    <<a[2] * b[3] - a[3] * b[2], a[3] * b[1] - a[1] * b[3],
      a[1] * b[2] - a[2] * b[1]>>
Normal(surface) == Cross3(surface.u.direction, surface.v)

MaxCoordinate == 4
Coordinates == (0 - MaxCoordinate)..MaxCoordinate

\* SurfaceSurfaceIntersection::compute for two planes that both hold the
\* direction of the x axis: nothing when they are parallel; else the line
\* along x through the point both planes share, as a curve local to each.
SurfaceSurfaceIntersection_compute(surfaces) ==
    IF Cross3(Normal(surfaces[1]), Normal(surfaces[2])) = <<0, 0, 0>>
    THEN <<>>
    ELSE LET shared == CHOOSE st \in Coordinates \X Coordinates :
                          Add(surfaces[1].u.origin, Mul(surfaces[1].v, st[1]))
                          = Add(surfaces[2].u.origin, Mul(surfaces[2].v, st[2]))
         IN  Some([intersection_curves |->
                      <<Line(<<0, shared[1]>>, <<1, 0>>),
                        Line(<<0, shared[2]>>, <<1, 0>>)>>])

MinOf(set) == CHOOSE x \in set : \A y \in set : x <= y
MaxOf(set) == CHOOSE x \in set : \A y \in set : x >= y

\* CurveFaceIntersection::compute for a line along u and a convex face: the
\* interval of the line between the two half-edges of the exterior it
\* crosses, in curve coordinates; empty when it crosses none.
CurveFaceIntersection_compute(curve, face) ==
    LET v == curve.origin[2]
        crossed == {i \in 1..Len(face.exterior) :
                      LET from == start_position_at_value(face.exterior[i])
                          to == end_position_at_value(face.exterior[i])
                      IN  (from[2] < v /\ v < to[2]) \/ (to[2] < v /\ v < from[2])}
        hits == {start_position_at_value(face.exterior[i])[1] - curve.origin[1] :
                    i \in crossed}
    IN  IF hits = {} THEN <<>> ELSE <<<<MinOf(hits), MaxOf(hits)>>>>

\* CurveFaceIntersection::merge: the parts that lie in an interval of both.
RECURSIVE merge_one(_, _, _)
merge_one(interval, others, j) ==
    IF j > Len(others) THEN <<>>
    ELSE LET low == IF interval[1] > others[j][1] THEN interval[1] ELSE others[j][1]
             high == IF interval[2] < others[j][2] THEN interval[2] ELSE others[j][2]
         IN  (IF low < high THEN <<<<low, high>>>> ELSE <<>>)
             \o merge_one(interval, others, j + 1)
RECURSIVE merge_from(_, _, _)
merge_from(a, b, i) ==
    IF i > Len(a) THEN <<>>
    ELSE merge_one(a[i], b, 1) \o merge_from(a, b, i + 1)
merge(a, b) == merge_from(a, b, 1)

is_empty(intervals) == intervals = <<>>

\* FaceFaceIntersection::compute, had it returned empty interval sets too
compute_unchecked(fs) ==
    LET surfaces == <<fs[1].surface, fs[2].surface>>
        intersection == SurfaceSurfaceIntersection_compute(surfaces)
    IN  IF intersection = <<>> THEN <<>>
        ELSE LET intersection_curves == unwrap(intersection).intersection_curves
                 curve_face_intersections ==
                     [i \in 1..2 |->
                         CurveFaceIntersection_compute(intersection_curves[i], fs[i])]
                 intersection_intervals ==
                     merge(curve_face_intersections[1], curve_face_intersections[2])
             IN  Some([intersection_curves |-> intersection_curves,
                       intersection_intervals |-> intersection_intervals])

\* FaceFaceIntersection::compute
compute(fs) ==
    LET surfaces == <<fs[1].surface, fs[2].surface>>
        intersection == SurfaceSurfaceIntersection_compute(surfaces)
    IN  IF intersection = <<>> THEN <<>>
        ELSE LET intersection_curves == unwrap(intersection).intersection_curves
                 curve_face_intersections ==
                     [i \in 1..2 |->
                         CurveFaceIntersection_compute(intersection_curves[i], fs[i])]
                 intersection_intervals ==
                     merge(curve_face_intersections[1], curve_face_intersections[2])
             IN  IF is_empty(intersection_intervals) THEN <<>>
                 ELSE Some([intersection_curves |-> intersection_curves,
                            intersection_intervals |-> intersection_intervals])

----------------------------------------------------------------------------
(* Inputs: faces.                                                          *)

MaxComputations == 2

xy_plane_above == plane_from_points(<<<<0, 0, 3>>, <<1, 0, 3>>, <<0, 1, 3>>>>)
SurfaceInputs == {xy_plane, xz_plane, xy_plane_above}

\* Extents of rectangles along u and v; no two of them merely touch, and
\* none of them ends on an intersection curve.
ExtentInputsU == {<<-1, 1>>, <<0, 2>>, <<3, 4>>, <<-2, 4>>, <<1, 2>>}
ExtentInputsV == {<<-1, 1>>, <<1, 2>>, <<-2, 4>>}

\* The corners of the rectangle, counter-clockwise.
rectangle(u, v) == <<<<u[1], v[1]>>, <<u[2], v[1]>>, <<u[2], v[2]>>, <<u[1], v[2]>>>>

\* FaceBuilder::new(surface).with_exterior(CycleBuilder::polygon(points)).build
build_face(surface, points, objs) ==
    LET built == build_half_edges(polygon(points), objs)
    IN  [face |-> Face_new(surface, Cycle_new(built.half_edges), <<>>),
         objects |-> built.objects]

----------------------------------------------------------------------------
(* The state machine of a program that builds two faces and computes their *)
(* intersection.                                                           *)

BuildFaces ==
    /\ faces = <<>>
    /\ \E s1 \in SurfaceInputs, s2 \in SurfaceInputs,
          u1 \in ExtentInputsU, u2 \in ExtentInputsU,
          v1 \in ExtentInputsV, v2 \in ExtentInputsV :
          LET a == build_face(s1, rectangle(u1, v1), objects)
              b == build_face(s2, rectangle(u2, v2), a.objects)
          IN  /\ faces' = <<a.face, b.face>>
              /\ objects' = b.objects
    /\ UNCHANGED <<shell_vars, cycle_vars, partial_vars, face_vars, intersections>>

Compute ==
    /\ faces # <<>>
    /\ Len(intersections) < MaxComputations
    /\ intersections' = Append(intersections, compute(faces))
    /\ UNCHANGED <<objects, shell_vars, cycle_vars, partial_vars, face_vars, faces>>

NextIntersect ==
    \/ BuildFaces
    \/ Compute

SpecIntersect == Init /\ [][NextIntersect]_vars

----------------------------------------------------------------------------
(* partial/objects/edge.rs                                                 *)

\* MaybeCurve: a defined path, or a circle or line that is not yet defined.
Defined(path) == [kind |-> "Defined", path |-> Some(path)]
UndefinedCircle == [kind |-> "UndefinedCircle", path |-> <<>>]
UndefinedLine == [kind |-> "UndefinedLine", path |-> <<>>]

\* Partial<Vertex>: `full` is the handle of the vertex it stands for, None
\* while the vertex is not inserted.
Partial_new == [full |-> None]
Partial_from_full(vertex) == [full |-> vertex]
\* Partial::build: the vertex it stands for, inserted now if it is not yet.
Partial_build(partial_vertex, objs) ==
    IF partial_vertex.full = None
    THEN [handle |-> objs.vertices + 1,
          objects |-> [objs EXCEPT !.vertices = @ + 1]]
    ELSE [handle |-> partial_vertex.full, objects |-> objs]

\* PartialObject::new for PartialHalfEdge
PartialHalfEdge_new(objs) ==
    [partial |-> [curve |-> <<>>,
                  boundary |-> <<<<>>, <<>>>>,
                  start_vertex |-> Partial_new,
                  global_form |-> objs.global_edges + 1],
     objects |-> [objs EXCEPT !.global_edges = @ + 1]]

\* PartialObject::from_full for PartialHalfEdge, had it started from a new
\* partial vertex
PartialHalfEdge_from_full_new_vertex(half_edge) ==
    [curve |-> Some(Defined(half_edge.curve)),
     boundary |-> <<Some(half_edge.boundary[1]), Some(half_edge.boundary[2])>>,
     start_vertex |-> Partial_new,
     global_form |-> half_edge.global_form]

\* PartialObject::from_full for PartialHalfEdge
PartialHalfEdge_from_full(half_edge) ==
    [curve |-> Some(Defined(half_edge.curve)),
     boundary |-> <<Some(half_edge.boundary[1]), Some(half_edge.boundary[2])>>,
     start_vertex |-> Partial_from_full(half_edge.start_vertex),
     global_form |-> half_edge.global_form]

\* What a build returns: a half-edge, or the message of the panic that ended
\* it.
Built(half_edge) == [panic |-> "", half_edge |-> Some(half_edge)]
Panic(message) == [panic |-> message, half_edge |-> <<>>]

\* PartialObject::build for PartialHalfEdge, had it put a default in the
\* place of a boundary position that was never set
PartialHalfEdge_build_defaulting(self, objs) ==
    IF self.curve = <<>>
    THEN [full |-> Panic("Need path to build curve"), objects |-> objs]
    ELSE IF unwrap(self.curve).kind # "Defined"
    THEN [full |-> Panic("Trying to build curve with undefined path"),
          objects |-> objs]
    ELSE LET curve == unwrap(unwrap(self.curve).path)
             boundary == [i \in 1..2 |->
                             IF self.boundary[i] = <<>> THEN 0
                             ELSE unwrap(self.boundary[i])]
             start_vertex == Partial_build(self.start_vertex, objs)
         IN  [full |-> Built(HalfEdge_new(curve, boundary, start_vertex.handle,
                                          self.global_form)),
              objects |-> start_vertex.objects]

\* PartialObject::build for PartialHalfEdge
PartialHalfEdge_build(self, objs) ==
    IF self.curve = <<>>
    THEN [full |-> Panic("Need path to build curve"), objects |-> objs]
    ELSE IF unwrap(self.curve).kind # "Defined"
    THEN [full |-> Panic("Trying to build curve with undefined path"),
          objects |-> objs]
    ELSE IF self.boundary[1] = <<>> \/ self.boundary[2] = <<>>
    THEN [full |-> Panic("Cannot build HalfEdge without boundary positions"),
          objects |-> objs]
    ELSE LET curve == unwrap(unwrap(self.curve).path)
             boundary == <<unwrap(self.boundary[1]), unwrap(self.boundary[2])>>
             start_vertex == Partial_build(self.start_vertex, objs)
         IN  [full |-> Built(HalfEdge_new(curve, boundary, start_vertex.handle,
                                          self.global_form)),
              objects |-> start_vertex.objects]

\* HalfEdgeBuilder::with_start_vertex
with_start_vertex(builder, start_vertex) ==
    [builder EXCEPT !.start_vertex = start_vertex]

----------------------------------------------------------------------------
(* Inputs: partial half-edges and builders.                                *)

MaxOperations == 4

CurveInputs == {Line(<<0, 0>>, <<1, 0>>), unit_circle}
MaybeCurveInputs ==
    {Defined(curve) : curve \in CurveInputs} \cup {UndefinedCircle, UndefinedLine}
PositionInputs == {0, 1}
BuilderInputs == {line_segment(<<<<0, 0>>, <<1, 0>>>>), arc(unit_circle, 1, 0)}

----------------------------------------------------------------------------
(* The state machine of a program that makes half-edges through the store: *)
(* with a HalfEdgeBuilder, or with a PartialHalfEdge that is new or taken  *)
(* from a full half-edge, has its fields assigned, and is built.  `log`    *)
(* holds one entry per call; a panic ends the program.                     *)

NoResult == [panic |-> "", half_edge |-> <<>>]

Entry(op, builder, full, partial_edge, result, after) ==
    [op |-> op, builder |-> builder, full |-> full, partial |-> partial_edge,
     result |-> result, before |-> objects, after |-> after]

Running ==
    /\ Len(log) < MaxOperations
    /\ \A n \in 1..Len(log) : log[n].result.panic = ""

\* The half-edges built so far.
FullHalfEdges ==
    {unwrap(log[n].result.half_edge) :
        n \in {m \in 1..Len(log) : log[m].result.half_edge # <<>>}}

NewPartial ==
    /\ Running
    /\ partial = <<>>
    /\ LET new == PartialHalfEdge_new(objects)
       IN  /\ partial' = Some(new.partial)
           /\ objects' = new.objects
           /\ log' = Append(log, Entry("PartialHalfEdge::new", <<>>, <<>>,
                                       Some(new.partial), NoResult, new.objects))
    /\ UNCHANGED <<shell_vars, cycle_vars, intersect_vars, face_vars>>

FromFull ==
    /\ Running
    /\ partial = <<>>
    /\ \E half_edge \in FullHalfEdges :
          LET from == PartialHalfEdge_from_full(half_edge)
          IN  /\ partial' = Some(from)
              /\ log' = Append(log, Entry("PartialHalfEdge::from_full", <<>>,
                                          Some(half_edge), Some(from), NoResult,
                                          objects))
    /\ UNCHANGED <<objects, shell_vars, cycle_vars, intersect_vars, face_vars>>

\* The fields of a PartialHalfEdge are public: the program assigns a curve
\* or a boundary position.
AssignCurve ==
    /\ Running
    /\ partial # <<>>
    /\ \E curve \in MaybeCurveInputs :
          partial' = Some([unwrap(partial) EXCEPT !.curve = Some(curve)])
    /\ UNCHANGED <<objects, shell_vars, cycle_vars, intersect_vars, face_vars, log>>

AssignBoundary ==
    /\ Running
    /\ partial # <<>>
    /\ \E i \in 1..2, position \in PositionInputs :
          partial' = Some([unwrap(partial) EXCEPT !.boundary[i] = Some(position)])
    /\ UNCHANGED <<objects, shell_vars, cycle_vars, intersect_vars, face_vars, log>>

BuildPartial ==
    /\ Running
    /\ partial # <<>>
    /\ LET built == PartialHalfEdge_build(unwrap(partial), objects)
       IN  /\ objects' = built.objects
           /\ log' = Append(log, Entry("PartialHalfEdge::build", <<>>, <<>>,
                                       partial, built.full, built.objects))
    /\ partial' = <<>>
    /\ UNCHANGED <<shell_vars, cycle_vars, intersect_vars, face_vars>>

\* A builder is given a start vertex or a global form that the store has
\* issued, or none.
BuildWithBuilder ==
    /\ Running
    /\ \E builder \in BuilderInputs,
          start_vertex \in {None} \cup 1..objects.vertices,
          global_form \in {None} \cup 1..objects.global_edges :
          LET with_vertex == IF start_vertex = None THEN builder
                             ELSE with_start_vertex(builder, start_vertex)
              given == IF global_form = None THEN with_vertex
                       ELSE with_global_form(with_vertex, global_form)
              built == HalfEdgeBuilder_build(given, objects)
          IN  /\ objects' = built.objects
              /\ log' = Append(log, Entry("HalfEdgeBuilder::build", Some(given),
                                          <<>>, <<>>, Built(built.half_edge),
                                          built.objects))
    /\ UNCHANGED <<shell_vars, cycle_vars, intersect_vars, face_vars, partial>>

NextPartial ==
    \/ NewPartial
    \/ FromFull
    \/ AssignCurve
    \/ AssignBoundary
    \/ BuildPartial
    \/ BuildWithBuilder

SpecPartial == InitCycle /\ [][NextPartial]_vars

----------------------------------------------------------------------------
(* algorithms/reverse/face.rs                                              *)

\* A face with its color.
with_color(face, color) ==
    [surface |-> face.surface, exterior |-> face.exterior,
     interiors |-> face.interiors, color |-> color]

\* The cycles of `interiors` from the i-th on, each reversed, in order.
RECURSIVE reverse_interiors(_, _, _)
reverse_interiors(interiors, i, objs) ==
    IF i > Len(interiors)
    THEN [cycles |-> <<>>, objects |-> objs]
    ELSE LET reversed == reverse(interiors[i], objs)
             rest == reverse_interiors(interiors, i + 1, reversed.objects)
         IN  [cycles |-> <<Partial_from_full(reversed.cycle)>> \o rest.cycles,
              objects |-> rest.objects]

\* PartialFace::build: every cycle of the partial face stands for a full
\* cycle, so nothing but the face is inserted.
PartialFace_build(face) ==
    [surface |-> face.surface,
     exterior |-> face.exterior.full,
     interiors |-> [i \in 1..Len(face.interiors) |-> face.interiors[i].full],
     color |-> unwrap(face.color)]

\* Reverse for Handle<Face>, had it left the interiors as they are
Face_reverse_exterior(self, objs) ==
    LET reversed == reverse(self.exterior, objs)
        exterior == Partial_from_full(reversed.cycle)
        interiors == [i \in 1..Len(self.interiors) |->
                         Partial_from_full(self.interiors[i])]
        face == [surface |-> self.surface, exterior |-> exterior,
                 interiors |-> interiors, color |-> Some(self.color)]
    IN  [face |-> PartialFace_build(face), objects |-> reversed.objects]

\* Reverse for Handle<Face>
Face_reverse(self, objs) ==
    LET reversed == reverse(self.exterior, objs)
        exterior == Partial_from_full(reversed.cycle)
        interiors == reverse_interiors(self.interiors, 1, reversed.objects)
        face == [surface |-> self.surface, exterior |-> exterior,
                 interiors |-> interiors.cycles, color |-> Some(self.color)]
    IN  [face |-> PartialFace_build(face), objects |-> interiors.objects]

\* The face with its c-th cycle (the exterior first, then the interiors)
\* replaced by the reversal of that cycle.
reverse_cycle_of_face(face, c, objs) ==
    LET reversed == reverse(all_cycles(face)[c], objs)
    IN  [face |-> IF c = 1
                  THEN [face EXCEPT !.exterior = reversed.cycle]
                  ELSE [face EXCEPT !.interiors[c - 1] = reversed.cycle],
         objects |-> reversed.objects]

----------------------------------------------------------------------------
(* Inputs: shells of colored faces.                                        *)

MaxShellReversals == 2

\* Face f of a shell gets the f-th of these colors.
ColorInputs ==
    <<<<255, 0, 0, 255>>, <<0, 255, 0, 255>>, <<0, 0, 255, 255>>,
      <<255, 255, 0, 255>>>>
colored(shell) == [f \in 1..Len(shell) |-> with_color(shell[f], ColorInputs[f])]

\* A face on the xy-plane: a square with a triangular and a circular hole.
face_with_holes(objs) ==
    LET exterior == build_half_edges(polygon(rectangle(<<0, 6>>, <<0, 6>>)), objs)
        triangular == build_half_edges(
                          polygon(<<<<1, 1>>, <<2, 1>>, <<1, 2>>>>),
                          exterior.objects)
        circular == build_half_edges(
                        <<arc(Circle(<<4, 4>>, <<1, 0>>, <<0, 1>>), 0, 4)>>,
                        triangular.objects)
    IN  [face |-> Face_new(xy_plane, Cycle_new(exterior.half_edges),
                           <<Cycle_new(triangular.half_edges),
                             Cycle_new(circular.half_edges)>>),
         objects |-> circular.objects]

\* The tetrahedron; the tetrahedron without its first face; a shell of the
\* face with two holes; and shells of two half-edges, one the exterior and
\* one an interior of the same face.
ShellInputs(objs) ==
    LET solid == tetrahedron(TetrahedronPoints, objs)
        holes == face_with_holes(objs)
    IN  {solid,
         [shell |-> remove_face(solid.shell, 1), objects |-> solid.objects],
         [shell |-> <<holes.face>>, objects |-> holes.objects]}
        \cup {pair_shell(b1, b2, "interior", share, objs) :
                b1 \in FirstEdgeInputs, b2 \in FirstEdgeInputs, share \in BOOLEAN}

----------------------------------------------------------------------------
(* The state machine of a program that builds a shell, replaces a face or  *)
(* a cycle of the shell it holds by its reversal, again and again, and     *)
(* validates the shell it holds.  shells[k + 1] was made of shells[k] by   *)
(* steps[k]; reports[k] is what validation said of shells[k].              *)

NotValidated == [validated |-> FALSE, errors |-> <<>>]

BuildShell ==
    /\ shells = <<>>
    /\ \E built \in ShellInputs(objects) :
          /\ shells' = <<colored(built.shell)>>
          /\ objects' = built.objects
    /\ reports' = <<NotValidated>>
    /\ UNCHANGED <<shell_vars, cycle_vars, intersect_vars, partial_vars, steps>>

ReverseFace ==
    /\ shells # <<>>
    /\ Len(shells) <= MaxShellReversals
    /\ LET shell == shells[Len(shells)]
       IN  \E f \in 1..Len(shell) :
              LET reversed == Face_reverse(shell[f], objects)
              IN  /\ shells' = Append(shells, [shell EXCEPT ![f] = reversed.face])
                  /\ objects' = reversed.objects
                  /\ steps' = Append(steps, [op |-> "face", face |-> f, cycle |-> 0,
                                             before |-> objects,
                                             after |-> reversed.objects])
    /\ reports' = Append(reports, NotValidated)
    /\ UNCHANGED <<shell_vars, cycle_vars, intersect_vars, partial_vars>>

ReverseCycleOfFace ==
    /\ shells # <<>>
    /\ Len(shells) <= MaxShellReversals
    /\ LET shell == shells[Len(shells)]
       IN  \E f \in 1..Len(shell) : \E c \in 1..Len(all_cycles(shell[f])) :
              LET reversed == reverse_cycle_of_face(shell[f], c, objects)
              IN  /\ shells' = Append(shells, [shell EXCEPT ![f] = reversed.face])
                  /\ objects' = reversed.objects
                  /\ steps' = Append(steps, [op |-> "cycle", face |-> f, cycle |-> c,
                                             before |-> objects,
                                             after |-> reversed.objects])
    /\ reports' = Append(reports, NotValidated)
    /\ UNCHANGED <<shell_vars, cycle_vars, intersect_vars, partial_vars>>

ValidateShell ==
    /\ shells # <<>>
    /\ ~reports[Len(shells)].validated
    /\ reports' = [reports EXCEPT ![Len(shells)] =
                      [validated |-> TRUE,
                       errors |-> validate_with_config(shells[Len(shells)],
                                                       config, <<>>)]]
    /\ UNCHANGED <<objects, shell_vars, cycle_vars, intersect_vars, partial_vars,
                   shells, steps>>

NextFace ==
    \/ BuildShell
    \/ ReverseFace
    \/ ReverseCycleOfFace
    \/ ValidateShell

SpecFace == InitCycle /\ [][NextFace]_vars

----------------------------------------------------------------------------
(* What a validate_with_config call reported.                              *)

Validated == last.target # "none"
Target == unwrap(IF last.target = "valid" THEN valid ELSE invalid)
NewErrors == SubSeq(errors, last.mark + 1, Len(errors))
Reported(error) == \E k \in 1..Len(NewErrors) : NewErrors[k] = error
NotWatertightCount ==
    Cardinality({k \in 1..Len(NewErrors) : NewErrors[k].kind = "NotWatertight"})

\* The places of the half-edges of a shell: face f, cycle c of all_cycles,
\* position i in the cycle.
Places(shell) ==
    UNION {UNION {{<<f, c, i>> : i \in 1..Len(all_cycles(shell[f])[c])} :
                    c \in 1..Len(all_cycles(shell[f]))} :
             f \in 1..Len(shell)}
HalfEdgeAt(shell, p) == all_cycles(shell[p[1]])[p[2]][p[3]]
SurfaceAt(shell, p) == shell[p[1]].surface
ReferenceCount(shell, g) ==
    Cardinality({p \in Places(shell) : HalfEdgeAt(shell, p).global_form = g})
ReferencedGlobalEdges(shell) ==
    {HalfEdgeAt(shell, p).global_form : p \in Places(shell)}

\* The 3D sample of the half-edge at place p, at percent/2 of its boundary.
SampleAt(shell, p, percent) ==
    sample(percent, HalfEdgeAt(shell, p), SurfaceAt(shell, p))

\* The number of errors of the edge-coincidence pass that name the half-edge
\* at p as the first and the half-edge at q as the second edge.
Occurrences(shell, p, q) ==
    Cardinality({k \in 1..Len(NewErrors) :
        /\ NewErrors[k].kind # "NotWatertight"
        /\ NewErrors[k].edge_1 = HalfEdgeAt(shell, p).id
        /\ NewErrors[k].edge_2 = HalfEdgeAt(shell, q).id})

----------------------------------------------------------------------------
(* C1.  Watertightness.                                                    *)

\* C1 as stated: the watertightness pass reports NotWatertight if and only
\* if some GlobalEdge has a number of referencing half-edges of the shell
\* other than 2, the count 0 (a GlobalEdge of the store that no half-edge of
\* the shell refers to) included.
C1_AnyGlobalEdgeOfTheStore ==
    Validated =>
        (Reported(NotWatertight)
         <=> \E g \in 1..objects.global_edges : ReferenceCount(Target, g) # 2)

\* C1 as amended: the watertightness pass reports NotWatertight if and only
\* if some GlobalEdge that at least one half-edge of the shell refers to is
\* referred to by a number of half-edges other than 2 (1, or 3 and more); a
\* GlobalEdge no half-edge of the shell refers to is not counted.
C1_ReferencedGlobalEdges ==
    Validated =>
        (Reported(NotWatertight)
         <=> \E g \in ReferencedGlobalEdges(Target) :
                ReferenceCount(Target, g) # 2)

\* A shell in which one GlobalEdge is referred to three times was validated
\* and reported as not watertight.
C1_Witness ==
    /\ Validated
    /\ Reported(NotWatertight)
    /\ \E g \in ReferencedGlobalEdges(Target) : ReferenceCount(Target, g) >= 3

----------------------------------------------------------------------------
(* C2, C3, C4.  Edge coincidence.                                          *)

\* The squared distance of the samples of two places at two percentages.
SampleDistance(shell, p, percent_p, q, percent_q) ==
    distance_to(SampleAt(shell, p, percent_p), SampleAt(shell, q, percent_q))

\* Whether the second edge is sampled in reverse: the start samples are more
\* than identical_max_distance apart.
Reversed(shell, p, q) ==
    exceeds(SampleDistance(shell, p, 0, q, 0), config.identical_max_distance)

\* The three sample distances of validation: 0%, 50%, 100% of the first edge
\* against the same percentages of the second, or against 100%, 50%, 0% of
\* the second if it is sampled in reverse.
ResultingDistance(shell, p, q, percent) ==
    SampleDistance(shell, p, percent, q,
                   IF Reversed(shell, p, q) THEN 2 - percent ELSE percent)

SameGlobalEdge(shell, p, q) ==
    HalfEdgeAt(shell, p).global_form = HalfEdgeAt(shell, q).global_form

IdenticalError(shell, p, q) ==
    IdenticalEdgesNotCoincident(HalfEdgeAt(shell, p).id, SurfaceAt(shell, p),
                                HalfEdgeAt(shell, q).id, SurfaceAt(shell, q))
CoincidentError(shell, p, q) ==
    CoincidentEdgesNotIdentical(HalfEdgeAt(shell, p).id, HalfEdgeAt(shell, q).id)

\* C2: for two half-edges that share a GlobalEdge, IdenticalEdgesNotCoincident
\* is reported exactly when one of the three sample distances (0%, 50%, 100%,
\* the second edge sampled in reverse when the start samples are more than
\* identical_max_distance apart) exceeds identical_max_distance.
C2_IdenticalEdges ==
    Validated =>
        \A p \in Places(Target), q \in Places(Target) :
            SameGlobalEdge(Target, p, q) =>
                (Reported(IdenticalError(Target, p, q))
                 <=> \E percent \in 0..2 :
                        exceeds(ResultingDistance(Target, p, q, percent),
                                config.identical_max_distance))

\* Two half-edges that share a GlobalEdge and run in opposite directions were
\* sampled, the second in reverse, and one that does not coincide was
\* reported.
C2_Witness ==
    /\ Validated
    /\ \E p \in Places(Target), q \in Places(Target) :
          /\ p # q
          /\ SameGlobalEdge(Target, p, q)
          /\ Reversed(Target, p, q)
          /\ ~Reported(IdenticalError(Target, p, q))
    /\ \E p \in Places(Target), q \in Places(Target) :
          /\ SameGlobalEdge(Target, p, q)
          /\ Reported(IdenticalError(Target, p, q))

\* C3 as stated: for two half-edges that do not share a GlobalEdge,
\* CoincidentEdgesNotIdentical is reported exactly when the distances of the
\* two start samples, the two middle samples and the two end samples are all
\* strictly below distinct_min_distance.
C3_StartMiddleEndDistances ==
    Validated =>
        \A p \in Places(Target), q \in Places(Target) :
            ~SameGlobalEdge(Target, p, q) =>
                (Reported(CoincidentError(Target, p, q))
                 <=> \A percent \in 0..2 :
                        below(SampleDistance(Target, p, percent, q, percent),
                              config.distinct_min_distance))

\* C3 as amended: for two half-edges that do not share a GlobalEdge,
\* CoincidentEdgesNotIdentical is reported exactly when the three sample
\* distances are all strictly below distinct_min_distance, where the second
\* edge is sampled in reverse (its 100%, 50%, 0% against the first edge's 0%,
\* 50%, 100%) when the two start samples are more than identical_max_distance
\* apart, just as for two half-edges that share a GlobalEdge.
C3_DistinctEdges ==
    Validated =>
        \A p \in Places(Target), q \in Places(Target) :
            ~SameGlobalEdge(Target, p, q) =>
                (Reported(CoincidentError(Target, p, q))
                 <=> \A percent \in 0..2 :
                        below(ResultingDistance(Target, p, q, percent),
                              config.distinct_min_distance))

\* Two half-edges with different GlobalEdges that run along the same segment
\* in opposite directions were validated: the second was sampled in reverse
\* and the pair was reported.
C3_Witness ==
    /\ Validated
    /\ \E p \in Places(Target), q \in Places(Target) :
          /\ ~SameGlobalEdge(Target, p, q)
          /\ Reversed(Target, p, q)
          /\ Reported(CoincidentError(Target, p, q))

\* C4 as stated: every unordered pair of half-edges is examined once, so the
\* errors that name two given half-edges, in either order, are at most one,
\* and a half-edge paired with itself produces none.
C4_OneErrorPerUnorderedPair ==
    Validated =>
        \A p \in Places(Target), q \in Places(Target) :
            IF p = q
            THEN Occurrences(Target, p, p) = 0
            ELSE Occurrences(Target, p, q) + Occurrences(Target, q, p) <= 1

\* Whether validation finds fault with the half-edge at p against the one at
\* q (C2 and C3).
Violating(shell, p, q) ==
    IF SameGlobalEdge(shell, p, q)
    THEN \E percent \in 0..2 :
            exceeds(ResultingDistance(shell, p, q, percent),
                    config.identical_max_distance)
    ELSE \A percent \in 0..2 :
            below(ResultingDistance(shell, p, q, percent),
                  config.distinct_min_distance)

\* C4 as amended: every ordered pair (first, second) of half-edges is examined
\* once, a half-edge paired with itself included: a violating pair of two
\* half-edges produces two errors, one naming them in each order, a pair that
\* does not violate produces none, and a half-edge paired with itself never
\* produces an error.
C4_OneErrorPerOrderedPair ==
    Validated =>
        \A p \in Places(Target), q \in Places(Target) :
            /\ Occurrences(Target, p, q) = Occurrences(Target, q, p)
            /\ Occurrences(Target, p, q)
                   = (IF p # q /\ Violating(Target, p, q) THEN 1 ELSE 0)

\* A shell with a violating pair of half-edges was validated.
C4_Witness ==
    /\ Validated
    /\ \E p \in Places(Target), q \in Places(Target) :
          /\ p # q
          /\ Occurrences(Target, p, q) = 1
          /\ Occurrences(Target, q, p) = 1

----------------------------------------------------------------------------
(* C5, C6, C7.  The tetrahedron of the tests.                              *)

Tetrahedron == tetrahedron(TetrahedronPoints, NoObjects)

\* The tetrahedron with face f removed.
WithoutFace(f) == remove_face(Tetrahedron.shell, f)

\* The tetrahedron with half-edge i of face f on a freshly inserted
\* GlobalEdge.
WithFreshGlobalEdge(f, i) ==
    LET objs == [Tetrahedron.objects EXCEPT !.global_edges = @ + 1]
    IN  update_global_form(Tetrahedron.shell, f, i, objs.global_edges, objs).shell

\* The place of the other half-edge of the tetrahedron on the GlobalEdge of
\* half-edge i of face f.
Twin(f, i) ==
    CHOOSE q \in Places(Tetrahedron.shell) :
        /\ q # <<f, 1, i>>
        /\ SameGlobalEdge(Tetrahedron.shell, <<f, 1, i>>, q)

\* C5: validating the closed tetrahedron with the default configuration
\* pushes no error.
C5_TetrahedronValid ==
    (Validated /\ Target = Tetrahedron.shell /\ config = DefaultConfig)
        => NewErrors = <<>>

\* The tetrahedron (four faces of three half-edges, six GlobalEdges with two
\* half-edges each, the second of them running in reverse) was validated
\* with the default configuration.
C5_Witness ==
    /\ Validated
    /\ Target = Tetrahedron.shell
    /\ config = DefaultConfig
    /\ Len(Target) = 4
    /\ Cardinality(Places(Target)) = 12
    /\ Cardinality(ReferencedGlobalEdges(Target)) = 6
    /\ \A p \in Places(Target) :
          \E q \in Places(Target) :
              q # p /\ SameGlobalEdge(Target, p, q) /\ Reversed(Target, p, q)

\* C6: validating the tetrahedron with one face removed pushes exactly one
\* NotWatertight error, whichever face was removed and whatever the
\* configuration.
C6_OneNotWatertight ==
    \A f \in 1..Len(Tetrahedron.shell) :
        (Validated /\ Target = WithoutFace(f)) => NotWatertightCount = 1

\* The tetrahedron without one face was validated: three GlobalEdges are left
\* with one half-edge each.
C6_Witness ==
    /\ Validated
    /\ \E f \in 1..Len(Tetrahedron.shell) : Target = WithoutFace(f)
    /\ Cardinality({g \in ReferencedGlobalEdges(Target) :
                        ReferenceCount(Target, g) # 2}) = 3

\* C7: after one half-edge of the tetrahedron was put on a fresh GlobalEdge,
\* validating the modified shell with the default configuration reports
\* CoincidentEdgesNotIdentical for that half-edge and its twin, and
\* validating the original shell still pushes no error.
C7_CoincidentNotIdentical ==
    \A f \in 1..Len(Tetrahedron.shell) :
    \A i \in 1..Len(Tetrahedron.shell[f].exterior) :
        (/\ Validated
         /\ valid = Some(Tetrahedron.shell)
         /\ invalid = Some(WithFreshGlobalEdge(f, i))
         /\ config = DefaultConfig)
        => IF last.target = "invalid"
           THEN Reported(CoincidentError(Target, <<f, 1, i>>, Twin(f, i)))
           ELSE NewErrors = <<>>

\* The scenario of tests::coincident_not_identical: the first half-edge of
\* face abc is on a fresh GlobalEdge; the original shell was validated, then
\* the modified one.
C7_Witness ==
    /\ calls = 2
    /\ last = [target |-> "invalid", mark |-> 0]
    /\ valid = Some(Tetrahedron.shell)
    /\ invalid = Some(WithFreshGlobalEdge(1, 1))
    /\ config = DefaultConfig
    /\ Reported(CoincidentError(Target, <<1, 1, 1>>, Twin(1, 1)))

----------------------------------------------------------------------------
(* C8.  Validation is diagnostic.                                          *)

\* C8: a validate_with_config call returns (the step ends with the call's
\* report), leaves the shells, the store and the configuration as they were,
\* and leaves every error that was in the list before the call in its place,
\* pushing its own behind them.
C8_Diagnostic ==
    [][calls' # calls =>
          /\ last'.target \in {"valid", "invalid"}
          /\ valid' = valid
          /\ invalid' = invalid
          /\ objects' = objects
          /\ config' = config
          /\ Len(errors') >= Len(errors)
          /\ SubSeq(errors', 1, Len(errors)) = errors]_vars

\* A second call was made with a list that already held errors, and pushed
\* its own.
C8_Witness ==
    /\ calls = 2
    /\ last.mark > 0
    /\ Len(errors) > last.mark

----------------------------------------------------------------------------
(* Claims about reversal and winding (SpecCycle).                          *)

\* Every half-edge of the cycle ends where the next one starts, circularly.
Connected(cycle) ==
    \A i \in 1..Len(cycle) :
        end_position(cycle[i]) = start_position(cycle[(i % Len(cycle)) + 1])

\* Equal but for the identities of the half-edges.
SameHalfEdge(e1, e2) ==
    /\ e1.curve = e2.curve
    /\ e1.boundary = e2.boundary
    /\ e1.start_vertex = e2.start_vertex
    /\ e1.global_form = e2.global_form
StructurallyEqual(c1, c2) ==
    /\ Len(c1) = Len(c2)
    /\ \A i \in 1..Len(c1) : SameHalfEdge(c1[i], c2[i])

\* C9: for every connected cycle of at least one half-edge, reversing it
\* twice yields a cycle of the same number of half-edges in the same order
\* that has, at each position, the same curve, boundary, start vertex and
\* GlobalEdge as the original.
C9_ReverseTwice ==
    \A k \in 1..Len(cycles) :
        (k + 2 <= Len(cycles) /\ Len(cycles[k]) >= 1 /\ Connected(cycles[k]))
            => StructurallyEqual(cycles[k + 2], cycles[k])

\* A cycle of three or more half-edges was reversed twice; the first
\* reversal changed it, the second restored it.
C9_Witness ==
    /\ Len(cycles) >= 3
    /\ Len(cycles[1]) >= 3
    /\ Connected(cycles[1])
    /\ ~StructurallyEqual(cycles[2], cycles[1])
    /\ StructurallyEqual(cycles[3], cycles[1])

Opposite(w) == IF w = Cw THEN Ccw ELSE Cw
AllCircles(cycle) == \A i \in 1..Len(cycle) : cycle[i].curve.kind = "Circle"

\* C10: for every connected cycle on which winding is defined (3 or more
\* half-edges, or 1 or 2 half-edges that are all on circles, and winding
\* returned Cw or Ccw), the winding of the reversed cycle is the opposite
\* of the winding of the cycle.
C10_ReverseFlipsWinding ==
    \A k \in 1..Len(cycles) :
        (/\ k + 1 <= Len(cycles)
         /\ Connected(cycles[k])
         /\ Len(cycles[k]) >= 1
         /\ Len(cycles[k]) < 3 => AllCircles(cycles[k])
         /\ windings[k] \in {Cw, Ccw}
         /\ windings[k + 1] # NotAsked)
            => windings[k + 1] = Opposite(windings[k])

\* C11: for every cycle on which winding is defined (it returned Cw or
\* Ccw), winding returns the same result for every cycle made of the same
\* half-edges in the same circular order, whichever half-edge comes first;
\* cycles of fewer than 3 half-edges included.
C11_WindingOfRotation ==
    (/\ rotated # NoRotation
     /\ windings[1] \in {Cw, Ccw})
        => rotated.winding = windings[1]

\* The start position of half-edge i of a cycle, and of the half-edge that
\* follows it circularly.
StartOf(cycle, i) == start_position(cycle[i])
StartOfNext(cycle, i) == start_position(cycle[(i % Len(cycle)) + 1])

\* The sum of (b.u - a.u) * (b.v + a.v) over the first n pairs (a, b) of
\* circularly consecutive start positions.
RECURSIVE ShoelaceSum(_, _)
ShoelaceSum(cycle, n) ==
    IF n = 0 THEN 0
    ELSE ShoelaceSum(cycle, n - 1)
         + (StartOfNext(cycle, n)[1] - StartOf(cycle, n)[1])
           * (StartOfNext(cycle, n)[2] + StartOf(cycle, n)[2])

\* C12: for a cycle of 3 or more half-edges, winding returns Cw when the
\* sum over circularly consecutive start positions (a, b) of
\* (b.u - a.u) * (b.v + a.v) is positive and Ccw when it is negative; when
\* the sum is zero it returns neither and ends with an invalid cycle.
C12_PolygonWinding ==
    \A k \in 1..Len(cycles) :
        (Len(cycles[k]) >= 3 /\ windings[k] # NotAsked)
            => LET sum == ShoelaceSum(cycles[k], Len(cycles[k]))
               IN  /\ sum > 0 => windings[k] = Cw
                   /\ sum < 0 => windings[k] = Ccw
                   /\ sum = 0 => windings[k] = InvalidCycle

\* winding was asked of a cycle of 3 or more half-edges whose sum is
\* positive and of its reversal, whose sum is negative.
C12_Witness ==
    /\ Len(cycles) >= 2
    /\ Len(cycles[1]) >= 3
    /\ windings[1] = Cw
    /\ windings[2] = Ccw
    /\ ShoelaceSum(cycles[1], Len(cycles[1])) > 0
    /\ ShoelaceSum(cycles[2], Len(cycles[2])) < 0

\* What winding is to return for a cycle of fewer than 3 half-edges.
Ascending(half_edge) == half_edge.boundary[1] < half_edge.boundary[2]
CrossPositive(circle) == circle.a[1] * circle.b[2] - circle.a[2] * circle.b[1] > 0
WindingOfFirst(cycle) ==
    IF Len(cycle) = 0 \/ cycle[1].curve.kind = "Line" THEN InvalidCycle
    ELSE IF Ascending(cycle[1]) <=> CrossPositive(cycle[1].curve) THEN Ccw
    ELSE Cw

\* C13: for a cycle of fewer than 3 half-edges winding looks at the first
\* half-edge only: on a circle it returns Ccw when (boundary start <
\* boundary end) equals (cross product of the two basis vectors of the
\* circle > 0) and Cw otherwise; on a line, or when the cycle has no
\* half-edge, it returns no winding and ends with an invalid cycle.
C13_WindingOfFirstHalfEdge ==
    /\ \A k \in 1..Len(cycles) :
          (Len(cycles[k]) < 3 /\ windings[k] # NotAsked)
              => windings[k] = WindingOfFirst(cycles[k])
    /\ (rotated # NoRotation /\ Len(cycles[1]) < 3)
          => rotated.winding = WindingOfFirst(<<cycles[1][rotated.by + 1]>>)

\* winding was asked of a cycle of two half-edges whose first half-edge is
\* on a circle with a negative cross product, and of the same two
\* half-edges started at the second.
C13_Witness ==
    /\ cycles # <<>>
    /\ Len(cycles[1]) = 2
    /\ cycles[1][1].curve.kind = "Circle"
    /\ cycles[1][2].curve.kind = "Circle"
    /\ ~CrossPositive(cycles[1][2].curve)
    /\ windings[1] \in {Cw, Ccw}
    /\ rotated.by = 1
    /\ rotated.winding \in {Cw, Ccw}

----------------------------------------------------------------------------
(* Claims about the intersection of two faces (SpecIntersect).             *)

SurfacesOfFaces == <<faces[1].surface, faces[2].surface>>
SurfacesIntersect == SurfaceSurfaceIntersection_compute(SurfacesOfFaces) # <<>>
CurvesOfSurfaces ==
    unwrap(SurfaceSurfaceIntersection_compute(SurfacesOfFaces)).intersection_curves
MergedIntervals ==
    merge(CurveFaceIntersection_compute(CurvesOfSurfaces[1], faces[1]),
          CurveFaceIntersection_compute(CurvesOfSurfaces[2], faces[2]))

\* C14: FaceFaceIntersection::compute returns None exactly when the
\* surfaces of the two faces have no intersection or the merge of the two
\* curve-face interval sets is empty; otherwise it returns the two local
\* curves of the surface-surface intersection, the i-th being the one that
\* was intersected with the i-th face, together with the merged interval
\* set, which is therefore never empty.
C14_FaceFaceIntersection ==
    \A n \in 1..Len(intersections) :
        /\ intersections[n] = <<>>
              <=> (~SurfacesIntersect \/ MergedIntervals = <<>>)
        /\ intersections[n] # <<>>
              => /\ unwrap(intersections[n]).intersection_curves = CurvesOfSurfaces
                 /\ unwrap(intersections[n]).intersection_intervals = MergedIntervals
                 /\ unwrap(intersections[n]).intersection_intervals # <<>>

\* Two faces on different planes were intersected; the curves local to the
\* two faces differ, and the interval returned is shorter than the interval
\* of either face.
C14_Witness ==
    /\ intersections # <<>>
    /\ intersections[1] # <<>>
    /\ CurvesOfSurfaces[1] # CurvesOfSurfaces[2]
    /\ unwrap(intersections[1]).intersection_intervals
          # CurveFaceIntersection_compute(CurvesOfSurfaces[1], faces[1])
    /\ unwrap(intersections[1]).intersection_intervals
          # CurveFaceIntersection_compute(CurvesOfSurfaces[2], faces[2])

----------------------------------------------------------------------------
(* Claims about partial half-edges and the store (SpecPartial).            *)

BuildsOfPartials ==
    {n \in 1..Len(log) : log[n].op = "PartialHalfEdge::build"}
NeverSet(option) == option = <<>>
Incomplete(partial_edge) ==
    \/ NeverSet(partial_edge.curve)
    \/ unwrap(partial_edge.curve).kind \in {"UndefinedCircle", "UndefinedLine"}
    \/ NeverSet(partial_edge.boundary[1])
    \/ NeverSet(partial_edge.boundary[2])

\* C15: building a partial half-edge aborts whenever its curve was never
\* set, its curve is set but undefined, or either of its two boundary
\* positions was never set; a build that returns a half-edge returns one
\* with the curve and the two boundary positions that were set, never with
\* a default in their place.
C15_BuildAbortsWhenIncomplete ==
    \A n \in BuildsOfPartials :
        LET given == unwrap(log[n].partial)
            result == log[n].result
        IN  /\ Incomplete(given) => (result.panic # "" /\ result.half_edge = <<>>)
            /\ result.half_edge # <<>>
                  => /\ ~Incomplete(given)
                     /\ Some(Defined(unwrap(result.half_edge).curve)) = given.curve
                     /\ Some(unwrap(result.half_edge).boundary[1]) = given.boundary[1]
                     /\ Some(unwrap(result.half_edge).boundary[2]) = given.boundary[2]

\* A partial half-edge with a defined curve and the first boundary position
\* set, but not the second, was built, and the build ended in a panic.
C15_Witness ==
    \E n \in BuildsOfPartials :
        LET given == unwrap(log[n].partial)
        IN  /\ ~NeverSet(given.curve)
            /\ unwrap(given.curve).kind = "Defined"
            /\ ~NeverSet(given.boundary[1])
            /\ NeverSet(given.boundary[2])
            /\ log[n].result.panic # ""

\* C16: converting a full half-edge to a partial half-edge with from_full
\* and building that partial again yields a half-edge with the same curve,
\* the same boundary, the same start vertex and the same GlobalEdge.
C16_BuildOfFromFull ==
    \A m \in 1..Len(log) : \A n \in BuildsOfPartials :
        (/\ m < n
         /\ log[m].op = "PartialHalfEdge::from_full"
         /\ log[n].partial = log[m].partial)
            => /\ log[n].result.half_edge # <<>>
               /\ SameHalfEdge(unwrap(log[n].result.half_edge), unwrap(log[m].full))

\* A half-edge on a circle, made by a builder, was converted with from_full
\* and built again.
C16_Witness ==
    /\ Len(log) >= 3
    /\ log[1].op = "HalfEdgeBuilder::build"
    /\ unwrap(log[1].result.half_edge).curve.kind = "Circle"
    /\ log[2].op = "PartialHalfEdge::from_full"
    /\ log[2].full = log[1].result.half_edge
    /\ log[3].op = "PartialHalfEdge::build"
    /\ log[3].partial = log[2].partial
    /\ log[3].result.half_edge # <<>>

\* The GlobalEdges and vertices that the calls before call n were given or
\* returned.
GlobalEdgesBefore(n) ==
    {unwrap(log[m].partial).global_form :
        m \in {k \in 1..(n - 1) : log[k].partial # <<>>}}
    \cup {unwrap(log[m].result.half_edge).global_form :
            m \in {k \in 1..(n - 1) : log[k].result.half_edge # <<>>}}
VerticesBefore(n) ==
    {unwrap(log[m].result.half_edge).start_vertex :
        m \in {k \in 1..(n - 1) : log[k].result.half_edge # <<>>}}

\* C17: identities are never reused.  PartialHalfEdge::new, and
\* HalfEdgeBuilder::build without a global form, obtain a GlobalEdge that is
\* inserted by that call and differs from every GlobalEdge of the calls
\* before; HalfEdgeBuilder::build with a start vertex or a global form uses
\* the handle it was given and inserts nothing in its place.
C17_FreshIdentities ==
    \A n \in 1..Len(log) :
        /\ log[n].op = "PartialHalfEdge::new"
              => /\ unwrap(log[n].partial).global_form \notin GlobalEdgesBefore(n)
                 /\ log[n].after.global_edges = log[n].before.global_edges + 1
        /\ log[n].op = "HalfEdgeBuilder::build"
              => LET given == unwrap(log[n].builder)
                     half_edge == unwrap(log[n].result.half_edge)
                 IN  /\ IF given.global_form = None
                        THEN /\ half_edge.global_form \notin GlobalEdgesBefore(n)
                             /\ log[n].after.global_edges
                                   = log[n].before.global_edges + 1
                        ELSE /\ half_edge.global_form = given.global_form
                             /\ log[n].after.global_edges
                                   = log[n].before.global_edges
                     /\ IF given.start_vertex = None
                        THEN /\ half_edge.start_vertex \notin VerticesBefore(n)
                             /\ log[n].after.vertices = log[n].before.vertices + 1
                        ELSE /\ half_edge.start_vertex = given.start_vertex
                             /\ log[n].after.vertices = log[n].before.vertices

\* After a PartialHalfEdge::new and a HalfEdgeBuilder::build without a
\* global form, a builder that was given the start vertex and the global
\* form of the half-edge built before was built.
C17_Witness ==
    /\ Len(log) >= 3
    /\ log[1].op = "PartialHalfEdge::new"
    /\ log[2].op = "HalfEdgeBuilder::build"
    /\ unwrap(log[2].builder).global_form = None
    /\ log[3].op = "HalfEdgeBuilder::build"
    /\ unwrap(log[3].builder).global_form
          = unwrap(log[2].result.half_edge).global_form
    /\ unwrap(log[3].builder).start_vertex
          = unwrap(log[2].result.half_edge).start_vertex

----------------------------------------------------------------------------
(* Claims about the half-edges of a reversed cycle (SpecCycle).            *)

\* C18: reversing a cycle with half-edges e_0 .. e_(n-1) yields a cycle of
\* the same length whose half-edge at position j has the curve and the
\* GlobalEdge of e_(n-1-j), the boundary of e_(n-1-j) with its two ends
\* swapped, and the start vertex of the half-edge that follows e_(n-1-j)
\* circularly in the original cycle.  (Positions count from 1 here: the
\* half-edge at j is derived from the one at n + 1 - j.)
C18_ReversedHalfEdges ==
    \A k \in 1..(Len(cycles) - 1) :
        LET original == cycles[k]
            reversed == cycles[k + 1]
            n == Len(original)
        IN  /\ Len(reversed) = n
            /\ \A j \in 1..n :
                  LET from == original[n + 1 - j]
                      following == original[((n + 1 - j) % n) + 1]
                  IN  /\ reversed[j].curve = from.curve
                      /\ reversed[j].global_form = from.global_form
                      /\ reversed[j].boundary = <<from.boundary[2], from.boundary[1]>>
                      /\ reversed[j].start_vertex = following.start_vertex

\* A cycle of four half-edges with four start vertices was reversed.
C18_Witness ==
    /\ Len(cycles) >= 2
    /\ Len(cycles[1]) = 4
    /\ Len(cycles[2]) = 4
    /\ Cardinality({cycles[1][i].start_vertex : i \in 1..4}) = 4

----------------------------------------------------------------------------
(* Reversal of faces and of the cycles of a shell                          *)

\* `reversed` has the half-edges of `original` back to front: each with the
\* curve and the global form of the one it is derived from, that one's
\* boundary with the ends swapped, and the start vertex of the half-edge
\* that follows that one in `original`.
IsReversalOf(reversed, original) ==
    LET n == Len(original)
    IN  /\ Len(reversed) = n
        /\ \A j \in 1..n :
              LET from == original[n + 1 - j]
                  following == original[((n + 1 - j) % n) + 1]
              IN  /\ reversed[j].curve = from.curve
                  /\ reversed[j].global_form = from.global_form
                  /\ reversed[j].boundary = <<from.boundary[2], from.boundary[1]>>
                  /\ reversed[j].start_vertex = following.start_vertex

\* The steps that reversed a face.
FaceReversals == {k \in 1..Len(steps) : steps[k].op = "face"}

\* C19: reversing a face yields a new face whose exterior is the reversal of
\* the exterior of the original, whose interiors are as many as those of the
\* original and are, position by position, the reversals of them, and whose
\* color is that of the original; the shell before the reversal holds the
\* original face, and every other face of the shell is left as it was.
C19_ReversedFace ==
    \A k \in FaceReversals :
        LET f == steps[k].face
            original == shells[k][f]
            new == shells[k + 1][f]
        IN  /\ IsReversalOf(new.exterior, original.exterior)
            /\ Len(new.interiors) = Len(original.interiors)
            /\ \A i \in 1..Len(original.interiors) :
                  IsReversalOf(new.interiors[i], original.interiors[i])
            /\ new.color = original.color
            /\ Len(shells[k + 1]) = Len(shells[k])
            /\ \A g \in 1..Len(shells[k]) :
                  g # f => shells[k + 1][g] = shells[k][g]

\* A colored face with two interiors was reversed: the first interior a
\* cycle of three half-edges, the second a cycle of one.
C19_Witness ==
    \E k \in FaceReversals :
        /\ Len(shells[k][steps[k].face].interiors) = 2
        /\ Len(shells[k][steps[k].face].interiors[1]) = 3
        /\ Len(shells[k][steps[k].face].interiors[2]) = 1
        /\ Len(shells[k + 1][steps[k].face].interiors[1]) = 3
        /\ shells[k][steps[k].face].color = ColorInputs[1]

\* The steps that replaced one cycle by its reversal.
CycleReversals == {k \in 1..Len(steps) : steps[k].op = "cycle"}

\* How many half-edges of a cycle refer to the global edge g.
ReferencesOfCycle(cycle, g) ==
    Cardinality({i \in 1..Len(cycle) : cycle[i].global_form = g})

\* C20: a reversed cycle refers to the global edges of the original, to each
\* as often as the original does, and reversing inserts no GlobalEdge and no
\* Vertex; so every shell made of a shell by replacing cycles by their
\* reversals, as often as one likes, has for every GlobalEdge the reference
\* count of the first shell, and validation reports NotWatertight for both
\* or for neither.
C20_ReversalKeepsReferences ==
    /\ \A k \in 1..Len(steps) :
          /\ steps[k].after.global_edges = steps[k].before.global_edges
          /\ steps[k].after.vertices = steps[k].before.vertices
          /\ \A f \in 1..Len(shells[k]) :
                \A c \in 1..Len(all_cycles(shells[k][f])) :
                    \A g \in 1..steps[k].after.global_edges :
                        ReferencesOfCycle(all_cycles(shells[k + 1][f])[c], g)
                            = ReferencesOfCycle(all_cycles(shells[k][f])[c], g)
    /\ \A k \in 1..Len(shells) :
          \A g \in 1..objects.global_edges :
              ReferenceCount(shells[k], g) = ReferenceCount(shells[1], g)
    /\ \A j \in 1..Len(shells) : \A k \in 1..Len(shells) :
          reports[j].validated /\ reports[k].validated
              => ((\E e \in 1..Len(reports[j].errors) :
                       reports[j].errors[e] = NotWatertight)
                  <=> (\E e \in 1..Len(reports[k].errors) :
                           reports[k].errors[e] = NotWatertight))

\* A shell that is not watertight was validated, then a cycle of it was
\* replaced by its reversal and another cycle after that, and the shell
\* made so was validated and is not watertight either.
C20_Witness ==
    /\ Len(shells) = 3
    /\ CycleReversals = {1, 2}
    /\ <<steps[1].face, steps[1].cycle>> # <<steps[2].face, steps[2].cycle>>
    /\ reports[1].validated
    /\ reports[3].validated
    /\ \E e \in 1..Len(reports[1].errors) : reports[1].errors[e] = NotWatertight
    /\ \E e \in 1..Len(reports[3].errors) : reports[3].errors[e] = NotWatertight

====
